---- MODULE Spec2Model ----
(***************************************************************************)
(* Model of transit_performance_analysis.py: the timestamp normaliser,     *)
(* the event classifier, the timeline builder and facility accumulator     *)
(* (calculate_facility_transit_time), the shipment summariser              *)
(* (process_shipment) and the batch loop of load_data.                     *)
(*                                                                         *)
(* JSON / Python values are tagged records (field "kind").  Instants are   *)
(* microseconds counted from an epoch second lying in [2^30, 2^31)        *)
(* (2004-01-10 .. 2038-01-19); in that range a Python float holding epoch  *)
(* seconds is a multiple of 2^-22 s, so a float is modelled as an integer  *)
(* number of such grid units.  The local time zone is UTC.  Durations the  *)
(* code keeps in float hours are kept in microseconds (hours = us/3.6e9).  *)
(***************************************************************************)
EXTENDS Integers, Sequences, FiniteSets, TLC

VARIABLES pc, shipment_records, idx, processed_shipments, warnings,
          shipment, result, pickup_event, delivery_event,
          events, pos, seen_timestamps, sorted_events, total_hours

vars == <<pc, shipment_records, idx, processed_shipments, warnings,
          shipment, result, pickup_event, delivery_event,
          events, pos, seen_timestamps, sorted_events, total_hours>>

loadVars == <<shipment_records, idx, processed_shipments, warnings>>
shipVars == <<shipment, result, pickup_event, delivery_event>>
calcVars == <<events, pos, seen_timestamps, sorted_events, total_hours>>

----------------------------------------------------------------------------
(* Bounds of the model *)

MaxEvents == 3
MaxMs == 2
MaxShipEvents == 2
MaxMilestones == 2
MaxBatch == 3

----------------------------------------------------------------------------
(* Python / JSON values *)

NULL == [kind |-> "null"]
Str(s) == [kind |-> "str", s |-> s]
Iso(ms, suffix) == [kind |-> "str", iso |-> ms, suffix |-> suffix]
Num(n) == [kind |-> "num", n |-> n]
Dict(m) == [kind |-> "dict", m |-> m]
List(q) == [kind |-> "list", q |-> q]
DateTime(us, aware) == [kind |-> "datetime", us |-> us, aware |-> aware]

IsText(v) == v.kind = "str" /\ "s" \in DOMAIN v
IsIso(v) == v.kind = "str" /\ "iso" \in DOMAIN v

Truthy(v) ==
  CASE v.kind = "null" -> FALSE
    [] v.kind = "str" -> IF IsText(v) THEN v.s # "" ELSE TRUE
    [] v.kind = "num" -> v.n # 0
    [] v.kind = "dict" -> DOMAIN v.m # {}
    [] v.kind = "list" -> v.q # <<>>
    [] OTHER -> TRUE

SeqsUpTo(S, n) == UNION {[1..k -> S] : k \in 0..n}

----------------------------------------------------------------------------
(* Python str: text as a sequence of characters *)

Chars(s) ==
  CASE s = "" -> <<>>
    [] s = "FEDEX_FACILITY" -> <<"F", "E", "D", "E", "X", "_", "F", "A", "C", "I", "L", "I", "T", "Y">>
    [] s = "FedEx_Facility" -> <<"F", "e", "d", "E", "x", "_", "F", "a", "c", "i", "l", "i", "t", "y">>
    [] s = "VEHICLE" -> <<"V", "E", "H", "I", "C", "L", "E">>
    [] s = "FACILITY" -> <<"F", "A", "C", "I", "L", "I", "T", "Y">>
    [] s = "Pune" -> <<"P", "u", "n", "e">>
    [] s = "Delhi" -> <<"D", "e", "l", "h", "i">>
    [] s = "411001" -> <<"4", "1", "1", "0", "0", "1">>
    [] s = "110001" -> <<"1", "1", "0", "0", "0", "1">>
    [] s = "411001 " -> <<"4", "1", "1", "0", "0", "1", " ">>
    [] s = "Picked up" -> <<"P", "i", "c", "k", "e", "d", " ", "u", "p">>
    [] s = "Delivered" -> <<"D", "e", "l", "i", "v", "e", "r", "e", "d">>
    [] s = "In transit" -> <<"I", "n", " ", "t", "r", "a", "n", "s", "i", "t">>
    [] s = "On FedEx vehicle for delivery" -> <<"O", "n", " ", "F", "e", "d", "E", "x", " ", "v", "e", "h", "i", "c", "l", "e", " ", "f", "o", "r", " ", "d", "e", "l", "i", "v", "e", "r", "y">>
    [] s = "Out for Delivery - vehicle arrived" -> <<"O", "u", "t", " ", "f", "o", "r", " ", "D", "e", "l", "i", "v", "e", "r", "y", " ", "-", " ", "v", "e", "h", "i", "c", "l", "e", " ", "a", "r", "r", "i", "v", "e", "d">>
    [] s = "FEDEX_EXPRESS_SAVER" -> <<"F", "E", "D", "E", "X", "_", "E", "X", "P", "R", "E", "S", "S", "_", "S", "A", "V", "E", "R">>
    [] s = "EXPRESS" -> <<"E", "X", "P", "R", "E", "S", "S">>
    [] s = "SAVER" -> <<"S", "A", "V", "E", "R">>
    [] s = "pick" -> <<"p", "i", "c", "k">>
    [] s = "deliver" -> <<"d", "e", "l", "i", "v", "e", "r">>
    [] s = "vehicle" -> <<"v", "e", "h", "i", "c", "l", "e">>
    [] s = "out for delivery" -> <<"o", "u", "t", " ", "f", "o", "r", " ", "d", "e", "l", "i", "v", "e", "r", "y">>

UpperLetters == <<"A", "C", "D", "E", "F", "H", "I", "K", "L", "N", "O", "P", "R", "S", "T", "U", "V", "X", "Y">>
LowerLetters == <<"a", "c", "d", "e", "f", "h", "i", "k", "l", "n", "o", "p", "r", "s", "t", "u", "v", "x", "y">>

MapChar(c, from, to) ==
  IF \E i \in DOMAIN from : from[i] = c
  THEN to[CHOOSE i \in DOMAIN from : from[i] = c]
  ELSE c

Upper(cs) == [i \in DOMAIN cs |-> MapChar(cs[i], LowerLetters, UpperLetters)]
Lower(cs) == [i \in DOMAIN cs |-> MapChar(cs[i], UpperLetters, LowerLetters)]

Contains(cs, sub) ==
  \E k \in 0..(Len(cs) - Len(sub)) : \A j \in 1..Len(sub) : cs[k + j] = sub[j]

Strip(cs) ==
  LET keep == {i \in DOMAIN cs : cs[i] # " "}
  IN IF keep = {} THEN <<>>
     ELSE LET lo == CHOOSE i \in keep : \A j \in keep : i <= j
              hi == CHOOSE i \in keep : \A j \in keep : i >= j
          IN [i \in 1..(hi - lo + 1) |-> cs[lo + i - 1]]

(* str(value) and "{value}" inside an f-string *)
Format(v) == IF IsText(v) THEN Chars(v.s) ELSE <<>>

----------------------------------------------------------------------------
(* get_nested_value *)

RECURSIVE Walk(_, _, _)
Walk(current, keys, default) ==
  IF keys = <<>>
  THEN IF current # NULL THEN current ELSE default
  ELSE IF current.kind = "dict" /\ Head(keys) \in DOMAIN current.m
       THEN Walk(current.m[Head(keys)], Tail(keys), default)
       ELSE default

get_nested_value(data, keys, default) == Walk(data, keys, default)

----------------------------------------------------------------------------
(* Floats holding epoch seconds, and datetime conversions *)

Grid == 4194304
Million == 1000000

RoundHalfEven(whole, n, d) ==
  LET q == whole + (n \div d)
      r == n % d
  IN IF 2 * r > d \/ (2 * r = d /\ q % 2 = 1) THEN q + 1 ELSE q

(* milliseconds / 1000.0 *)
DivThousand(ms) ==
  RoundHalfEven((ms \div 1000) * Grid, (ms % 1000) * 524288, 125)

(* datetime.fromtimestamp(f): the float rounded to the microsecond *)
fromtimestamp(f) ==
  LET rem == f % Grid
  IN RoundHalfEven((f \div Grid) * Million + (rem \div 65536) * 15625,
                   (rem % 65536) * 15625, 65536)

(* datetime.timestamp(): the microsecond instant rounded to a float *)
timestamp(us) ==
  LET frac == us % Million
  IN RoundHalfEven((us \div Million) * Grid + (frac \div 15625) * 65536,
                   (frac % 15625) * 65536, 15625)

(* base_time + offset after k additions of 0.001 to offset *)
AddOffset(base_time, k) == base_time + RoundHalfEven(0, k * 524288, 125)

parse_timestamp(timestamp_value) ==
  IF timestamp_value = NULL THEN NULL
  ELSE IF timestamp_value.kind = "dict" /\ "$numberLong" \in DOMAIN timestamp_value.m
  THEN LET inner == timestamp_value.m["$numberLong"]
       IN IF inner.kind = "num"
          THEN DateTime(fromtimestamp(DivThousand(inner.n)), FALSE)
          ELSE NULL
  ELSE IF timestamp_value.kind = "str"
  THEN IF IsIso(timestamp_value)
       THEN DateTime(timestamp_value.iso * 1000, timestamp_value.suffix # "")
       ELSE NULL
  ELSE IF timestamp_value.kind = "num"
  THEN DateTime(fromtimestamp(DivThousand(timestamp_value.n)), FALSE)
  ELSE NULL

----------------------------------------------------------------------------
(* Event classifier: facility arrival and facility identity *)

EmptyStr == Str("")
EmptyDict == Dict(<<>>)

IsFacilityLocation(location) ==
  Truthy(location) /\ Contains(Upper(Format(location)), Chars("FACILITY"))

FacilityKey(event) ==
  LET location == get_nested_value(event, <<"arrivalLocation">>, EmptyStr)
      address == get_nested_value(event, <<"address">>, EmptyDict)
      city == get_nested_value(address, <<"city">>, EmptyStr)
      postal == get_nested_value(address, <<"postalCode">>, EmptyStr)
  IN Format(location) \o <<"_">> \o Format(city) \o <<"_">> \o Format(postal)

IsFacilityArrival(event) ==
  IsFacilityLocation(get_nested_value(event, <<"arrivalLocation">>, EmptyStr))

----------------------------------------------------------------------------
(* calculate_facility_transit_time: timeline builder *)

EventTime(event) == parse_timestamp(get_nested_value(event, <<"timestamp">>, NULL))

RECURSIVE FreeOffset(_, _, _)
FreeOffset(base_time, k, seen) ==
  IF AddOffset(base_time, k) \in seen
  THEN FreeOffset(base_time, k + 1, seen)
  ELSE k

(* One iteration of the loop over events.  tl holds sorted_events and       *)
(* seen_timestamps; i is the position of the event object in the input.    *)
BuildStep(tl, event, i) ==
  LET time == EventTime(event)
  IN IF Truthy(time)
     THEN LET base_time == timestamp(time.us)
              offset == FreeOffset(base_time, 0, tl.seen_timestamps)
              final_time == fromtimestamp(AddOffset(base_time, offset))
          IN [sorted_events |-> Append(tl.sorted_events,
                                       [time |-> final_time, event |-> event, idx |-> i]),
              seen_timestamps |-> tl.seen_timestamps \cup {timestamp(final_time)}]
     ELSE tl

RECURSIVE BuildLoop(_, _, _)
BuildLoop(q, i, tl) ==
  IF i > Len(q) THEN tl ELSE BuildLoop(q, i + 1, BuildStep(tl, q[i], i))

(* list.sort(key=lambda x: x[0]): a stable sort on the adjusted instant *)
InsertByTime(sorted, x) ==
  LET n == Cardinality({i \in DOMAIN sorted : sorted[i].time <= x.time})
  IN SubSeq(sorted, 1, n) \o <<x>> \o SubSeq(sorted, n + 1, Len(sorted))

RECURSIVE SortByTime(_)
SortByTime(q) ==
  IF q = <<>> THEN <<>>
  ELSE InsertByTime(SortByTime(SubSeq(q, 1, Len(q) - 1)), q[Len(q)])

----------------------------------------------------------------------------
(* calculate_facility_transit_time: facility accumulator *)

PairHoursSameFacilityCounted(sorted, i) ==
  LET current_event == sorted[i].event
      next_event == sorted[i + 1].event
      hours_between == sorted[i + 1].time - sorted[i].time
  IN IF IsFacilityArrival(current_event) /\ IsFacilityArrival(next_event)
     THEN IF hours_between > 0 THEN hours_between ELSE 0
     ELSE 0

PairHoursFromTimelineStart(sorted, i) ==
  LET current_event == sorted[i].event
      next_event == sorted[i + 1].event
      hours_between == sorted[i + 1].time - sorted[1].time
  IN IF /\ IsFacilityArrival(current_event)
        /\ IsFacilityArrival(next_event)
        /\ FacilityKey(current_event) # FacilityKey(next_event)
     THEN IF hours_between > 0 THEN hours_between ELSE 0
     ELSE 0

(* The amount one iteration of the loop over adjacent pairs adds *)
PairHours(sorted, i) ==
  LET current_event == sorted[i].event
      next_event == sorted[i + 1].event
      hours_between == sorted[i + 1].time - sorted[i].time
  IN IF /\ IsFacilityArrival(current_event)
        /\ IsFacilityArrival(next_event)
        /\ FacilityKey(current_event) # FacilityKey(next_event)
     THEN IF hours_between > 0 THEN hours_between ELSE 0
     ELSE 0

RECURSIVE AccumulateLoop(_, _, _)
AccumulateLoop(sorted, i, total) ==
  IF i > Len(sorted) - 1 THEN total
  ELSE AccumulateLoop(sorted, i + 1, total + PairHours(sorted, i))

EmptyTimeline == [sorted_events |-> <<>>, seen_timestamps |-> {}]

ReturnsEarly(evs) == ~Truthy(evs) \/ Len(evs.q) < 2

calculate_facility_transit_time(evs) ==
  IF ReturnsEarly(evs) THEN 0
  ELSE AccumulateLoop(SortByTime(BuildLoop(evs.q, 1, EmptyTimeline).sorted_events), 1, 0)

----------------------------------------------------------------------------
(* calculate_facility_transit_time, one action per step *)

WrappedMs(ms) == Dict(("$numberLong" :> Num(ms)))

Place(location, city, postal) ==
  [arrivalLocation |-> Str(location),
   address |-> Dict([city |-> Str(city), postalCode |-> Str(postal)])]

TransitPlaces ==
  { Place("FEDEX_FACILITY", "Pune", "411001"),
    Place("FedEx_Facility", "Delhi", "110001"),
    Place("VEHICLE", "Pune", "411001") }

TransitTimestamps == {NULL} \cup {WrappedMs(ms) : ms \in 0..MaxMs}

TransitEvents ==
  {Dict([timestamp |-> WrappedMs(1)])} \cup
  {Dict([timestamp |-> ts, arrivalLocation |-> p.arrivalLocation, address |-> p.address]) :
     ts \in TransitTimestamps, p \in TransitPlaces}

InitTransit ==
  /\ pc = "calc_entry"
  /\ events \in {List(q) : q \in SeqsUpTo(TransitEvents, MaxEvents)}
  /\ pos = 0
  /\ seen_timestamps = {}
  /\ sorted_events = <<>>
  /\ total_hours = 0
  /\ shipment_records = <<>> /\ idx = 0 /\ processed_shipments = <<>> /\ warnings = <<>>
  /\ shipment = NULL /\ result = NULL /\ pickup_event = NULL /\ delivery_event = NULL

CalcReturnEarly ==
  /\ pc = "calc_entry"
  /\ ReturnsEarly(events)
  /\ total_hours' = 0
  /\ pc' = "calc_done"
  /\ UNCHANGED <<events, pos, seen_timestamps, sorted_events, loadVars, shipVars>>

CalcBegin ==
  /\ pc = "calc_entry"
  /\ ~ReturnsEarly(events)
  /\ sorted_events' = <<>>
  /\ seen_timestamps' = {}
  /\ pos' = 1
  /\ pc' = "calc_build"
  /\ UNCHANGED <<events, total_hours, loadVars, shipVars>>

CalcBuild ==
  /\ pc = "calc_build"
  /\ pos <= Len(events.q)
  /\ LET tl == BuildStep([sorted_events |-> sorted_events,
                          seen_timestamps |-> seen_timestamps], events.q[pos], pos)
     IN /\ sorted_events' = tl.sorted_events
        /\ seen_timestamps' = tl.seen_timestamps
  /\ pos' = pos + 1
  /\ UNCHANGED <<pc, events, total_hours, loadVars, shipVars>>

CalcSort ==
  /\ pc = "calc_build"
  /\ pos > Len(events.q)
  /\ sorted_events' = SortByTime(sorted_events)
  /\ total_hours' = 0
  /\ pos' = 1
  /\ pc' = "calc_accumulate"
  /\ UNCHANGED <<events, seen_timestamps, loadVars, shipVars>>

CalcAccumulate ==
  /\ pc = "calc_accumulate"
  /\ pos <= Len(sorted_events) - 1
  /\ total_hours' = total_hours + PairHours(sorted_events, pos)
  /\ pos' = pos + 1
  /\ UNCHANGED <<pc, events, seen_timestamps, sorted_events, loadVars, shipVars>>

CalcReturn ==
  /\ pc = "calc_accumulate"
  /\ pos > Len(sorted_events) - 1
  /\ pc' = "calc_done"
  /\ UNCHANGED <<events, pos, seen_timestamps, sorted_events, total_hours, loadVars, shipVars>>

NextTransit ==
  \/ CalcReturnEarly
  \/ CalcBegin
  \/ CalcBuild
  \/ CalcSort
  \/ CalcAccumulate
  \/ CalcReturn

SpecTransit == InitTransit /\ [][NextTransit]_vars

----------------------------------------------------------------------------
(* Event classifier: pickup, delivery, in-transit, out-for-delivery *)

EventType(event) == get_nested_value(event, <<"eventType">>, EmptyStr)

DescriptionLower(event) ==
  Lower(Format(get_nested_value(event, <<"eventDescription">>, EmptyStr)))

IsPickup(event) ==
  EventType(event) = Str("PU") \/ Contains(DescriptionLower(event), Chars("pick"))

IsDelivery(event) ==
  EventType(event) = Str("DL") \/ Contains(DescriptionLower(event), Chars("deliver"))

IsDeliveryAttempt(event) ==
  \/ EventType(event) = Str("OD")
  \/ Contains(DescriptionLower(event), Chars("vehicle"))
  \/ Contains(DescriptionLower(event), Chars("out for delivery"))

RECURSIVE ScanPickupLastMatch(_, _)
ScanPickupLastMatch(q, i) ==
  IF i > Len(q) THEN NULL
  ELSE LET later == ScanPickupLastMatch(q, i + 1)
       IN IF later # NULL THEN later
          ELSE IF IsPickup(q[i]) THEN q[i] ELSE NULL

(* the loop of find_pickup_event, from position i *)
RECURSIVE ScanPickup(_, _)
ScanPickup(q, i) ==
  IF i > Len(q) THEN NULL
  ELSE IF IsPickup(q[i]) THEN q[i]
  ELSE ScanPickup(q, i + 1)

find_pickup_event(evs) ==
  IF ~Truthy(evs) THEN NULL ELSE ScanPickup(evs.q, 1)

(* the loop of find_delivery_event, from position i *)
RECURSIVE ScanDelivery(_, _)
ScanDelivery(q, i) ==
  IF i > Len(q) THEN NULL
  ELSE IF IsDelivery(q[i]) THEN q[i]
  ELSE ScanDelivery(q, i + 1)

find_delivery_event(evs) ==
  IF ~Truthy(evs) THEN NULL ELSE ScanDelivery(evs.q, 1)

count_unique_facilities(evs) ==
  IF ~Truthy(evs) THEN 0
  ELSE LET facility_ids ==
             {Strip(FacilityKey(evs.q[i])) :
                i \in {j \in DOMAIN evs.q : IsFacilityArrival(evs.q[j])}}
       IN Cardinality({id \in facility_ids : id # <<>>})

count_transit_events(evs) ==
  IF ~Truthy(evs) THEN 0
  ELSE Cardinality({i \in DOMAIN evs.q : EventType(evs.q[i]) = Str("IT")})

AttemptsCountingEachCondition(evs) ==
  IF ~Truthy(evs) THEN 0
  ELSE Cardinality({i \in DOMAIN evs.q : EventType(evs.q[i]) = Str("OD")})
       + Cardinality({i \in DOMAIN evs.q :
                        Contains(DescriptionLower(evs.q[i]), Chars("vehicle"))})
       + Cardinality({i \in DOMAIN evs.q :
                        Contains(DescriptionLower(evs.q[i]), Chars("out for delivery"))})

count_delivery_attempts(evs) ==
  IF ~Truthy(evs) THEN 0
  ELSE Cardinality({i \in DOMAIN evs.q : IsDeliveryAttempt(evs.q[i])})

is_express_service(service_type) ==
  IF ~Truthy(service_type) THEN FALSE
  ELSE LET service_upper == Upper(Format(service_type))
       IN Contains(service_upper, Chars("EXPRESS")) /\ ~Contains(service_upper, Chars("SAVER"))

extract_address(address_data) ==
  IF ~Truthy(address_data) \/ address_data.kind # "dict"
  THEN [city |-> NULL, state |-> NULL, pincode |-> NULL]
  ELSE [city |-> get_nested_value(address_data, <<"city">>, NULL),
        state |-> get_nested_value(address_data, <<"stateOrProvinceCode">>, NULL),
        pincode |-> get_nested_value(address_data, <<"postalCode">>, NULL)]

----------------------------------------------------------------------------
(* process_shipment *)

(* the scan of datesOrTimes for the first entry of the given type; the     *)
(* time found so far is kept when no entry has that type                   *)
RECURSIVE ScanMilestones(_, _, _, _)
ScanMilestones(q, i, type, found) ==
  IF i > Len(q) THEN found
  ELSE IF get_nested_value(q[i], <<"type">>, EmptyStr) = Str(type)
  THEN parse_timestamp(get_nested_value(q[i], <<"dateOrTimestamp">>, NULL))
  ELSE ScanMilestones(q, i + 1, type, found)

EventFoundSkipsMilestones(event, event_time) == ~Truthy(event)

(* the guards "if not pickup_time" / "if not delivery_time" *)
NeedsMilestone(event, event_time) == ~Truthy(event_time)

TimeOf(event, dates_or_times, type) ==
  LET event_time == IF Truthy(event)
                    THEN parse_timestamp(get_nested_value(event, <<"timestamp">>, NULL))
                    ELSE NULL
  IN IF NeedsMilestone(event, event_time)
     THEN ScanMilestones(dates_or_times.q, 1, type, event_time)
     ELSE event_time

(* strftime("%Y-%m-%d %H:%M:%S"): wall-clock time cut to whole seconds *)
strftime(time) ==
  IF Truthy(time) THEN [kind |-> "str", seconds |-> time.us \div Million] ELSE NULL

Quotient(a, b) == [kind |-> "num", num |-> a, den |-> b]

Raise(exception) == [kind |-> "raise", exception |-> exception]

SubtractionRaises(pickup_time, delivery_time) ==
  Truthy(pickup_time) /\ Truthy(delivery_time) /\ pickup_time.aware # delivery_time.aware

AvgZeroWhenUnknown(total_transit_hours, facilities_count) ==
  IF Truthy(total_transit_hours) /\ facilities_count > 0
  THEN Quotient(total_transit_hours.n, facilities_count)
  ELSE Num(0)

avg_hours_per_facility(total_transit_hours, facilities_count) ==
  IF Truthy(total_transit_hours) /\ facilities_count > 0
  THEN Quotient(total_transit_hours.n, facilities_count)
  ELSE NULL

EventsOf(sh) == get_nested_value(sh, <<"events">>, List(<<>>))

first_attempt(delivery_attempts) == delivery_attempts = 1

total_events(sh) == IF Truthy(EventsOf(sh)) THEN Len(EventsOf(sh).q) ELSE 0

process_shipment(sh) ==
  IF ~Truthy(sh) \/ sh.kind # "dict" THEN NULL
  ELSE
    LET origin_info == extract_address(get_nested_value(sh, <<"shipperAddress">>, EmptyDict))
        destination_info == extract_address(get_nested_value(sh, <<"destinationAddress">>, EmptyDict))
        service_type == get_nested_value(sh, <<"service", "type">>, NULL)
        evs == EventsOf(sh)
        dates_or_times == get_nested_value(sh, <<"datesOrTimes">>, List(<<>>))
        pickup_time == TimeOf(find_pickup_event(evs), dates_or_times, "ACTUAL_PICKUP")
        delivery_time == TimeOf(find_delivery_event(evs), dates_or_times, "ACTUAL_DELIVERY")
        total_transit_hours ==
          IF Truthy(pickup_time) /\ Truthy(delivery_time)
          THEN Num(delivery_time.us - pickup_time.us)
          ELSE NULL
        facilities_count == count_unique_facilities(evs)
        delivery_attempts == count_delivery_attempts(evs)
    IN IF SubtractionRaises(pickup_time, delivery_time) THEN Raise("TypeError")
       ELSE
         [kind |-> "record",
          tracking_number |-> get_nested_value(sh, <<"trackingNumber">>, NULL),
          service_type |-> service_type,
          carrier_code |-> get_nested_value(sh, <<"carrierCode">>, NULL),
          package_weight_kg |-> get_nested_value(sh, <<"packageWeight", "value">>, NULL),
          packaging_type |-> get_nested_value(sh, <<"packaging", "type">>, NULL),
          origin_city |-> origin_info.city,
          origin_state |-> origin_info.state,
          origin_pincode |-> origin_info.pincode,
          destination_city |-> destination_info.city,
          destination_state |-> destination_info.state,
          destination_pincode |-> destination_info.pincode,
          pickup_datetime_ist |-> strftime(pickup_time),
          delivery_datetime_ist |-> strftime(delivery_time),
          total_transit_hours |-> total_transit_hours,
          num_facilities_visited |-> facilities_count,
          num_in_transit_events |-> count_transit_events(evs),
          time_in_inter_facility_transit_hours |-> calculate_facility_transit_time(evs),
          avg_hours_per_facility |-> avg_hours_per_facility(total_transit_hours, facilities_count),
          is_express_service |-> is_express_service(service_type),
          delivery_location_type |-> get_nested_value(sh, <<"deliveryLocationType">>, NULL),
          num_out_for_delivery_attempts |-> delivery_attempts,
          first_attempt_delivery |-> first_attempt(delivery_attempts),
          total_events_count |-> total_events(sh)]

----------------------------------------------------------------------------
(* process_shipment applied to one shipment record *)

Event(type, description, ts, location, address) ==
  Dict([eventType |-> type, eventDescription |-> description, timestamp |-> ts,
        arrivalLocation |-> location, address |-> address])

PuneAddress == Dict([city |-> Str("Pune"), postalCode |-> Str("411001")])
DelhiAddress == Dict([city |-> Str("Delhi"), postalCode |-> Str("110001")])
PuneAddressPadded == Dict([city |-> Str("Pune"), postalCode |-> Str("411001 ")])

ShipEvents ==
  { Event(Str("PU"), Str("Picked up"), Num(1000), Str("FEDEX_FACILITY"), PuneAddress),
    Event(NULL, Str("Picked up"), WrappedMs(3000), NULL, NULL),
    Event(Str("PU"), NULL, NULL, NULL, NULL),
    Event(Str("DL"), Str("Delivered"), WrappedMs(5000), NULL, NULL),
    Event(Str("OD"), Str("On FedEx vehicle for delivery"), WrappedMs(4000), Str("VEHICLE"), PuneAddress),
    Event(NULL, Str("Out for Delivery - vehicle arrived"), WrappedMs(4000), NULL, NULL),
    Event(Str("IT"), Str("In transit"), WrappedMs(2000), Str("FedEx_Facility"), DelhiAddress),
    Event(Str("PU"), Str("Delivered"), WrappedMs(1000), Str("FEDEX_FACILITY"), PuneAddress),
    Event(Str("DL"), NULL, Iso(6000, "Z"), NULL, NULL),
    Event(Str("DL"), Str("Delivered"), Num(500), NULL, NULL),
    Event(Str("IT"), Str("In transit"), WrappedMs(2000), Str("FEDEX_FACILITY"), PuneAddressPadded) }

Milestone(type, ts) == Dict([type |-> Str(type), dateOrTimestamp |-> ts])

Milestones ==
  { Milestone("ACTUAL_PICKUP", Iso(500, "")),
    Milestone("ACTUAL_DELIVERY", Iso(7000, "")),
    Milestone("ACTUAL_DELIVERY", Iso(8000, "+00:00")),
    Milestone("ESTIMATED_DELIVERY", Iso(9000, "")) }

Headers ==
  { [trackingNumber |-> NULL, service |-> NULL, shipperAddress |-> NULL],
    [trackingNumber |-> Str("TN1"),
     service |-> Dict([type |-> Str("FEDEX_EXPRESS_SAVER")]),
     shipperAddress |-> Dict([city |-> Str("Pune"), postalCode |-> Str("411001")])] }

Shipment(header, evs, dates_or_times) ==
  Dict([trackingNumber |-> header.trackingNumber, service |-> header.service,
        shipperAddress |-> header.shipperAddress,
        events |-> evs, datesOrTimes |-> dates_or_times])

Shipments ==
  { NULL, Str("TN1"), EmptyDict, Dict([trackingNumber |-> Str("TN1")]),
    Dict([datesOrTimes |-> List(<<Milestone("ACTUAL_PICKUP", Iso(500, "")),
                                  Milestone("ACTUAL_DELIVERY", Iso(7000, ""))>>)]) } \cup
  { Shipment(h, evs, List(ms)) :
      h \in Headers,
      evs \in {NULL} \cup {List(q) : q \in SeqsUpTo(ShipEvents, MaxShipEvents)},
      ms \in SeqsUpTo(Milestones, MaxMilestones) }

InitShipment ==
  /\ pc = "ship_call"
  /\ shipment \in Shipments
  /\ result = NULL /\ pickup_event = NULL /\ delivery_event = NULL
  /\ events = NULL
  /\ pos = 0 /\ seen_timestamps = {} /\ sorted_events = <<>> /\ total_hours = 0
  /\ shipment_records = <<>> /\ idx = 0 /\ processed_shipments = <<>> /\ warnings = <<>>

IsShipmentRecord(sh) == Truthy(sh) /\ sh.kind = "dict"

ProcessShipment ==
  /\ pc = "ship_call"
  /\ result' = process_shipment(shipment)
  /\ IF IsShipmentRecord(shipment)
     THEN /\ events' = EventsOf(shipment)
          /\ pickup_event' = find_pickup_event(EventsOf(shipment))
          /\ delivery_event' = find_delivery_event(EventsOf(shipment))
     ELSE UNCHANGED <<events, pickup_event, delivery_event>>
  /\ pc' = "ship_done"
  /\ UNCHANGED <<shipment, pos, seen_timestamps, sorted_events, total_hours, loadVars>>

NextShipment == ProcessShipment

SpecShipment == InitShipment /\ [][NextShipment]_vars

----------------------------------------------------------------------------
(* load_data: the loop over shipment_records *)

BatchRecords ==
  { NULL, Str("TN1"), EmptyDict,
    Dict([trackingNumber |-> Str("TN1")]),
    Shipment(CHOOSE h \in Headers : h.trackingNumber # NULL,
             List(<<Event(Str("PU"), Str("Picked up"), Num(1000), Str("FEDEX_FACILITY"), PuneAddress),
                    Event(Str("DL"), Str("Delivered"), WrappedMs(5000), NULL, NULL)>>),
             List(<<>>)),
    Shipment(CHOOSE h \in Headers : h.trackingNumber # NULL,
             List(<<Event(Str("PU"), Str("Picked up"), Num(1000), Str("FEDEX_FACILITY"), PuneAddress)>>),
             List(<<Milestone("ACTUAL_DELIVERY", Iso(8000, "+00:00"))>>)) }

InitLoad ==
  /\ pc = "load_loop"
  /\ shipment_records \in SeqsUpTo(BatchRecords, MaxBatch)
  /\ idx = 0
  /\ processed_shipments = <<>>
  /\ warnings = <<>>
  /\ shipment = NULL /\ result = NULL /\ pickup_event = NULL /\ delivery_event = NULL
  /\ events = NULL
  /\ pos = 0 /\ seen_timestamps = {} /\ sorted_events = <<>> /\ total_hours = 0

(* result = process_shipment(shipment); if result: append *)
LoopAppend ==
  /\ pc = "load_loop"
  /\ idx < Len(shipment_records)
  /\ LET r == process_shipment(shipment_records[idx + 1])
     IN /\ r.kind = "record"
        /\ result' = r
        /\ processed_shipments' = Append(processed_shipments, r)
  /\ shipment' = shipment_records[idx + 1]
  /\ idx' = idx + 1
  /\ UNCHANGED <<pc, shipment_records, warnings, pickup_event, delivery_event, calcVars>>

(* process_shipment returned None: nothing is appended, nothing is printed *)
LoopSkip ==
  /\ pc = "load_loop"
  /\ idx < Len(shipment_records)
  /\ LET r == process_shipment(shipment_records[idx + 1])
     IN /\ r = NULL
        /\ result' = r
  /\ shipment' = shipment_records[idx + 1]
  /\ idx' = idx + 1
  /\ UNCHANGED <<pc, shipment_records, processed_shipments, warnings,
                 pickup_event, delivery_event, calcVars>>

(* except Exception: print the warning with the index, continue *)
LoopWarn ==
  /\ pc = "load_loop"
  /\ idx < Len(shipment_records)
  /\ process_shipment(shipment_records[idx + 1]).kind = "raise"
  /\ warnings' = Append(warnings, idx)
  /\ shipment' = shipment_records[idx + 1]
  /\ idx' = idx + 1
  /\ UNCHANGED <<pc, shipment_records, processed_shipments, result,
                 pickup_event, delivery_event, calcVars>>

LoadReturn ==
  /\ pc = "load_loop"
  /\ idx >= Len(shipment_records)
  /\ pc' = "load_done"
  /\ UNCHANGED <<loadVars, shipVars, calcVars>>

NextLoad ==
  \/ LoopAppend
  \/ LoopSkip
  \/ LoopWarn
  \/ LoadReturn

SpecLoad == InitLoad /\ [][NextLoad]_vars

----------------------------------------------------------------------------
(* Properties of the timeline builder and the facility accumulator *)

Normalizes(event) == Truthy(EventTime(event))

TimelinePositions == DOMAIN sorted_events

(* The timeline exists: the build loop and the sort have run *)
TimelineBuilt == pc = "calc_accumulate"

AdjustedInstants == {sorted_events[j].time : j \in TimelinePositions}

MaxOf(S) == CHOOSE x \in S : \A y \in S : y <= x
MinOf(S) == CHOOSE x \in S : \A y \in S : x <= y

EveryEventRetainedOnce ==
  \A i \in DOMAIN events.q :
    Normalizes(events.q[i]) =>
      Cardinality({j \in TimelinePositions : sorted_events[j].idx = i}) = 1

StrictlyIncreasing ==
  \A j, k \in TimelinePositions :
    j < k => sorted_events[j].time < sorted_events[k].time

EqualRawKeepInputOrder ==
  \A j, k \in TimelinePositions :
    (/\ j < k
     /\ get_nested_value(sorted_events[j].event, <<"timestamp">>, NULL)
          = get_nested_value(sorted_events[k].event, <<"timestamp">>, NULL))
      => sorted_events[j].idx < sorted_events[k].idx

(* C1: once the timeline is built, every event whose timestamp normalizes  *)
(* appears in it exactly once, the adjusted instants are pairwise distinct *)
(* (strictly increasing along the timeline), and events with identical raw *)
(* timestamps keep their input order.                                      *)
C1_TimelineStrictTotalOrder ==
  TimelineBuilt =>
    /\ EveryEventRetainedOnce
    /\ StrictlyIncreasing
    /\ EqualRawKeepInputOrder

ClaimedPairHours(j) ==
  IF /\ IsFacilityArrival(sorted_events[j].event)
     /\ IsFacilityArrival(sorted_events[j + 1].event)
     /\ FacilityKey(sorted_events[j].event) # FacilityKey(sorted_events[j + 1].event)
  THEN sorted_events[j + 1].time - sorted_events[j].time
  ELSE 0

RECURSIVE ClaimedSum(_)
ClaimedSum(n) == IF n <= 0 THEN 0 ELSE ClaimedSum(n - 1) + ClaimedPairHours(n)

IsAAB ==
  /\ Len(sorted_events) = 3
  /\ \A j \in 1..3 : IsFacilityArrival(sorted_events[j].event)
  /\ FacilityKey(sorted_events[1].event) = FacilityKey(sorted_events[2].event)
  /\ FacilityKey(sorted_events[2].event) # FacilityKey(sorted_events[3].event)
  /\ sorted_events[1].time < sorted_events[2].time
  /\ sorted_events[2].time < sorted_events[3].time

(* C2: the value returned equals the sum of (next instant - current        *)
(* instant) over exactly the adjacent timeline pairs in which both events  *)
(* are facility arrivals with different FacilityKeys; for the timeline     *)
(* [A@T1, A@T2, B@T3] it is T3 - T2.                                       *)
C2_AccumulatorIsSumOverDistinctFacilityPairs ==
  pc = "calc_done" =>
    /\ total_hours = ClaimedSum(Len(sorted_events) - 1)
    /\ IsAAB => total_hours = sorted_events[3].time - sorted_events[2].time

C2_Witness ==
  /\ pc = "calc_done"
  /\ IsAAB
  /\ total_hours = sorted_events[3].time - sorted_events[2].time
  /\ total_hours > 0

OriginalInstant(i) == EventTime(events.q[i]).us

(* C9: the order of the events in the timeline (perturbation, then sort on *)
(* the adjusted instants) is the order of a stable sort by (original       *)
(* instant, input index).                                                  *)
C9_PerturbationIsStableSort ==
  TimelineBuilt =>
    \A j, k \in TimelinePositions :
      j < k =>
        LET a == sorted_events[j].idx
            b == sorted_events[k].idx
        IN \/ OriginalInstant(a) < OriginalInstant(b)
           \/ (OriginalInstant(a) = OriginalInstant(b) /\ a < b)

NormalizableCount == Cardinality({i \in DOMAIN events.q : Normalizes(events.q[i])})

(* C10: the value returned is non-negative, never exceeds the span of the  *)
(* timeline (largest minus smallest adjusted instant), and is 0 when fewer *)
(* than two events have a normalizable timestamp.                          *)
C10_AccumulatorWithinSpan ==
  pc = "calc_done" =>
    /\ total_hours >= 0
    /\ AdjustedInstants # {} => total_hours <= MaxOf(AdjustedInstants) - MinOf(AdjustedInstants)
    /\ NormalizableCount < 2 => total_hours = 0

C10_Witness ==
  /\ pc = "calc_done"
  /\ Len(sorted_events) = 3
  /\ total_hours > 0
  /\ total_hours = MaxOf(AdjustedInstants) - MinOf(AdjustedInstants)

----------------------------------------------------------------------------
(* Properties of load_data *)

IsMalformed(record) == record = NULL \/ record.kind # "dict"

WellFormedRecords == {r \in BatchRecords : ~IsMalformed(r) /\ process_shipment(r).kind = "record"}

MalformedPositions == {i \in DOMAIN shipment_records : IsMalformed(shipment_records[i])}

OneMalformedRestWellFormed ==
  /\ Cardinality(MalformedPositions) = 1
  /\ \A i \in DOMAIN shipment_records :
       i \notin MalformedPositions => shipment_records[i] \in WellFormedRecords

(* C3: when exactly one record of a batch of N is malformed (null or not a *)
(* mapping) and the others are well-formed, the loop processes every       *)
(* record, produces exactly N-1 output records and logs exactly one        *)
(* warning.                                                                *)
C3_OneMalformedOneWarning ==
  (pc = "load_done" /\ OneMalformedRestWellFormed) =>
    /\ idx = Len(shipment_records)
    /\ Len(processed_shipments) = Len(shipment_records) - 1
    /\ Len(warnings) = 1

----------------------------------------------------------------------------
(* Properties of process_shipment *)

Summarised == pc = "ship_done" /\ result.kind = "record"

InputEvents == IF events.kind = "list" THEN events.q ELSE <<>>

ClaimedPickup(event) ==
  \/ get_nested_value(event, <<"eventType">>, EmptyStr) = Str("PU")
  \/ Contains(Lower(Format(get_nested_value(event, <<"eventDescription">>, EmptyStr))),
              Chars("pick"))

ClaimedDelivery(event) ==
  \/ get_nested_value(event, <<"eventType">>, EmptyStr) = Str("DL")
  \/ Contains(Lower(Format(get_nested_value(event, <<"eventDescription">>, EmptyStr))),
              Chars("deliver"))

PickupPositions == {i \in DOMAIN InputEvents : ClaimedPickup(InputEvents[i])}
DeliveryPositions == {i \in DOMAIN InputEvents : ClaimedDelivery(InputEvents[i])}

FirstInInputOrder(found, positions) ==
  IF positions = {} THEN found = NULL
  ELSE found = InputEvents[MinOf(positions)]

InstantOf(event) == parse_timestamp(get_nested_value(event, <<"timestamp">>, NULL))

PickupAndDeliveryAreFirstMatches ==
  /\ FirstInInputOrder(pickup_event, PickupPositions)
  /\ FirstInInputOrder(delivery_event, DeliveryPositions)

(* The statement of C4 as written: the scan returns the first match in     *)
(* input order, and the reported instants are those of the events found.   *)
C4_Original ==
  (pc = "ship_done" /\ IsShipmentRecord(shipment)) =>
    /\ PickupAndDeliveryAreFirstMatches
    /\ result.kind = "record" =>
         /\ pickup_event # NULL =>
              result.pickup_datetime_ist = strftime(InstantOf(pickup_event))
         /\ delivery_event # NULL =>
              result.delivery_datetime_ist = strftime(InstantOf(delivery_event))

(* C4: find_pickup_event / find_delivery_event return the matching event   *)
(* with the smallest input index (absence iff nothing matches), whatever   *)
(* the timestamps; the instant reported is that event's instant whenever   *)
(* that event's timestamp normalizes to an instant.                        *)
C4_FirstMatchInInputOrder ==
  (pc = "ship_done" /\ IsShipmentRecord(shipment)) =>
    /\ PickupAndDeliveryAreFirstMatches
    /\ result.kind = "record" =>
         /\ (pickup_event # NULL /\ InstantOf(pickup_event) # NULL) =>
              result.pickup_datetime_ist = strftime(InstantOf(pickup_event))
         /\ (delivery_event # NULL /\ InstantOf(delivery_event) # NULL) =>
              result.delivery_datetime_ist = strftime(InstantOf(delivery_event))

(* two pickup events, the first in input order being the later in time *)
C4_Witness ==
  /\ Summarised
  /\ Cardinality(PickupPositions) = 2
  /\ InstantOf(InputEvents[1]) # NULL /\ InstantOf(InputEvents[2]) # NULL
  /\ InstantOf(InputEvents[1]).us > InstantOf(InputEvents[2]).us
  /\ pickup_event = InputEvents[1]
  /\ result.pickup_datetime_ist = strftime(InstantOf(InputEvents[1]))
  /\ result.pickup_datetime_ist # strftime(InstantOf(InputEvents[2]))

DatesOrTimes == get_nested_value(shipment, <<"datesOrTimes">>, List(<<>>)).q

MilestonePositions(type) ==
  {i \in DOMAIN DatesOrTimes : get_nested_value(DatesOrTimes[i], <<"type">>, EmptyStr) = Str(type)}

MilestoneInstant(type) ==
  IF MilestonePositions(type) = {} THEN NULL
  ELSE parse_timestamp(get_nested_value(DatesOrTimes[MinOf(MilestonePositions(type))],
                                        <<"dateOrTimestamp">>, NULL))

(* The statement of C5 as written: whenever the classifier finds a pickup  *)
(* (delivery) event, the milestones are not used for that time.            *)
C5_Original ==
  Summarised =>
    /\ result.pickup_datetime_ist =
         IF pickup_event # NULL THEN strftime(InstantOf(pickup_event))
         ELSE strftime(MilestoneInstant("ACTUAL_PICKUP"))
    /\ result.delivery_datetime_ist =
         IF delivery_event # NULL THEN strftime(InstantOf(delivery_event))
         ELSE strftime(MilestoneInstant("ACTUAL_DELIVERY"))

EventInstant(event) == IF event # NULL THEN InstantOf(event) ELSE NULL

(* C5: the milestone list supplies the pickup (delivery) time only if the  *)
(* events yield none, that is, no event satisfies the rule or the first    *)
(* such event has no timestamp that normalizes; whenever the event found   *)
(* has a normalizable timestamp the milestones are not used.               *)
C5_MilestoneFallback ==
  Summarised =>
    /\ result.pickup_datetime_ist =
         IF EventInstant(pickup_event) # NULL THEN strftime(EventInstant(pickup_event))
         ELSE strftime(MilestoneInstant("ACTUAL_PICKUP"))
    /\ result.delivery_datetime_ist =
         IF EventInstant(delivery_event) # NULL THEN strftime(EventInstant(delivery_event))
         ELSE strftime(MilestoneInstant("ACTUAL_DELIVERY"))

(* a pickup event with a timestamp and an ACTUAL_PICKUP milestone: the     *)
(* event's time is reported                                                *)
C5_Witness ==
  /\ Summarised
  /\ EventInstant(pickup_event) # NULL
  /\ MilestoneInstant("ACTUAL_PICKUP") # NULL
  /\ result.pickup_datetime_ist = strftime(EventInstant(pickup_event))
  /\ result.pickup_datetime_ist # strftime(MilestoneInstant("ACTUAL_PICKUP"))

ZeroEvents == IsShipmentRecord(shipment) /\ InputEvents = <<>>

CountsAreZero ==
  /\ result.num_facilities_visited = 0
  /\ result.num_in_transit_events = 0
  /\ result.num_out_for_delivery_attempts = 0
  /\ result.total_events_count = 0

(* The statement of C6 as written: with zero events every count is 0 and   *)
(* every time-derived field is absent.                                     *)
C6_Original ==
  (Summarised /\ ZeroEvents) =>
    /\ CountsAreZero
    /\ result.pickup_datetime_ist = NULL
    /\ result.delivery_datetime_ist = NULL
    /\ result.total_transit_hours = NULL
    /\ result.avg_hours_per_facility = NULL

(* C6: with zero events every count is 0 and avg_hours_per_facility is     *)
(* absent; the pickup and delivery instants are absent unless the          *)
(* milestone list supplies them (first ACTUAL_PICKUP / ACTUAL_DELIVERY     *)
(* entry), and total_transit_hours is present only when both are.          *)
C6_ZeroEvents ==
  (Summarised /\ ZeroEvents) =>
    /\ CountsAreZero
    /\ result.avg_hours_per_facility = NULL
    /\ result.pickup_datetime_ist = strftime(MilestoneInstant("ACTUAL_PICKUP"))
    /\ result.delivery_datetime_ist = strftime(MilestoneInstant("ACTUAL_DELIVERY"))
    /\ result.total_transit_hours # NULL <=>
         (result.pickup_datetime_ist # NULL /\ result.delivery_datetime_ist # NULL)

(* zero events, both milestones: the times are present, the average is not *)
C6_Witness ==
  /\ Summarised
  /\ ZeroEvents
  /\ result.pickup_datetime_ist # NULL
  /\ result.delivery_datetime_ist # NULL
  /\ result.total_transit_hours # NULL
  /\ result.avg_hours_per_facility = NULL
  /\ CountsAreZero

(* C7: avg_hours_per_facility equals total_transit_hours divided by        *)
(* num_facilities_visited whenever total_transit_hours is known and        *)
(* num_facilities_visited > 0, and is absent in every other case.          *)
C7_AvgDefinedIffKnown ==
  Summarised =>
    result.avg_hours_per_facility =
      IF result.total_transit_hours # NULL /\ result.num_facilities_visited > 0
      THEN Quotient(result.total_transit_hours.n, result.num_facilities_visited)
      ELSE NULL

ClaimedOutForDelivery(event) ==
  LET description ==
        Lower(Format(get_nested_value(event, <<"eventDescription">>, EmptyStr)))
  IN \/ get_nested_value(event, <<"eventType">>, EmptyStr) = Str("OD")
     \/ Contains(description, Chars("vehicle"))
     \/ Contains(description, Chars("out for delivery"))

OutForDeliveryPositions == {i \in DOMAIN InputEvents : ClaimedOutForDelivery(InputEvents[i])}

(* C8: first_attempt_delivery is true iff exactly one event is classified  *)
(* out-for-delivery (type code OD, or description containing "vehicle" or  *)
(* "out for delivery"), each event counted once.                           *)
C8_FirstAttemptIffExactlyOne ==
  Summarised =>
    /\ result.num_out_for_delivery_attempts = Cardinality(OutForDeliveryPositions)
    /\ result.first_attempt_delivery <=> (Cardinality(OutForDeliveryPositions) = 1)

(* a single event that is OD by code and by both description phrases *)
C8_Witness ==
  /\ Summarised
  /\ Len(InputEvents) = 2
  /\ Cardinality(OutForDeliveryPositions) = 1
  /\ \E i \in OutForDeliveryPositions :
       /\ EventType(InputEvents[i]) = Str("OD")
       /\ Contains(DescriptionLower(InputEvents[i]), Chars("vehicle"))
  /\ result.first_attempt_delivery

(* C11: in every output record, a positive inter-facility transit time    *)
(* implies that at least two distinct facilities were counted.             *)
C11_TransitImpliesTwoFacilities ==
  Summarised =>
    (result.time_in_inter_facility_transit_hours > 0
       => result.num_facilities_visited >= 2)

====
